---------------------------- MODULE Spec2Model ----------------------------
(***************************************************************************)
(* Model of netlify/functions/generate.js: the mapping-driven PDF overlay. *)
(*                                                                         *)
(* The file holds two successive definitions of exports.handler.  The     *)
(* second assignment (lines 297-389) is the one the module exports and    *)
(* the one README.md documents (fontUrl, pdf_base64); it is modelled by   *)
(* Spec.  The earlier definition (lines 66-229) is modelled by SpecV1.    *)
(*                                                                         *)
(* Strings are sequences of code points, so that trim(), toLowerCase(),   *)
(* split("\n"), String(v) and Number(v) are computed character by         *)
(* character.  Numbers are integers or NaN.                                *)
(***************************************************************************)
EXTENDS Integers, Sequences, FiniteSets, TLC

(***************************************************************************)
(* Bounds of the model.                                                    *)
(***************************************************************************)
MaxFields == 2      \* entries of mapping.fields in one request
NumPages  == 2      \* pages of the template document

(***************************************************************************)
(* JavaScript values.  One record shape for every value, so that values of *)
(* different types can be compared: t is the type tag, b/n/s/a the payload *)
(* of a boolean / number / string / array of strings.                      *)
(***************************************************************************)
Undefined == [t |-> "undefined", b |-> FALSE, n |-> 0, s |-> <<>>, a |-> <<>>]
Null      == [t |-> "null",      b |-> FALSE, n |-> 0, s |-> <<>>, a |-> <<>>]
NaN       == [t |-> "NaN",       b |-> FALSE, n |-> 0, s |-> <<>>, a |-> <<>>]
Bool(v)   == [t |-> "boolean",   b |-> v,     n |-> 0, s |-> <<>>, a |-> <<>>]
Num(v)    == [t |-> "number",    b |-> FALSE, n |-> v, s |-> <<>>, a |-> <<>>]
Str(v)    == [t |-> "string",    b |-> FALSE, n |-> 0, s |-> v,    a |-> <<>>]
Arr(v)    == [t |-> "array",     b |-> FALSE, n |-> 0, s |-> <<>>, a |-> v]

IsNaN(v)     == v.t = "NaN"
IsNumber(v)  == v.t \in {"number", "NaN"}          \* typeof v === "number"
IsNullish(v) == v.t \in {"undefined", "null"}      \* v == null

\* ToBoolean: the test made by ||, &&, !, ?: and if.
Truthy(v) ==
  CASE v.t = "undefined" -> FALSE
    [] v.t = "null"      -> FALSE
    [] v.t = "NaN"       -> FALSE
    [] v.t = "boolean"   -> v.b
    [] v.t = "number"    -> v.n # 0
    [] v.t = "string"    -> v.s # <<>>
    [] v.t = "array"     -> TRUE

\* a || b
Or(a, b) == IF Truthy(a) THEN a ELSE b

\* a ?? b
Coalesce(a, b) == IF IsNullish(a) THEN b ELSE a

(***************************************************************************)
(* String primitives.                                                      *)
(***************************************************************************)
IsSpace(c) == c \in ({9, 10, 11, 12, 13, 32, 160, 5760, 8232, 8233, 8239,
                      8287, 12288, 65279} \cup (8192..8202))

RECURSIVE TrimStart(_)
TrimStart(s) ==
  IF s # <<>> /\ IsSpace(Head(s)) THEN TrimStart(Tail(s)) ELSE s

RECURSIVE TrimEnd(_)
TrimEnd(s) ==
  IF s # <<>> /\ IsSpace(s[Len(s)])
  THEN TrimEnd(SubSeq(s, 1, Len(s) - 1)) ELSE s

\* String.prototype.trim
Trim(s) == TrimEnd(TrimStart(s))

\* toLowerCase of one code point (ASCII and Latin-1 capitals)
LowerChar(c) ==
  IF (c >= 65 /\ c <= 90) \/ (c >= 192 /\ c <= 222 /\ c # 215)
  THEN c + 32 ELSE c

\* String.prototype.toLowerCase
ToLowerCase(s) == [i \in 1..Len(s) |-> LowerChar(s[i])]

RECURSIVE NatToStr(_)
NatToStr(n) ==
  IF n < 10 THEN <<48 + n>> ELSE NatToStr(n \div 10) \o <<48 + (n % 10)>>

\* Number.prototype.toString for an integer
IntToStr(n) == IF n < 0 THEN <<45>> \o NatToStr(0 - n) ELSE NatToStr(n)

RECURSIVE Join(_, _)
\* Array.prototype.join
Join(a, sep) ==
  IF a = <<>> THEN <<>>
  ELSE IF Len(a) = 1 THEN a[1]
  ELSE a[1] \o sep \o Join(Tail(a), sep)

\* String(v)
JsString(v) ==
  CASE v.t = "undefined" -> <<117, 110, 100, 101, 102, 105, 110, 101, 100>>
    [] v.t = "null"      -> <<110, 117, 108, 108>>
    [] v.t = "NaN"       -> <<78, 97, 78>>
    [] v.t = "boolean"   -> IF v.b THEN <<116, 114, 117, 101>>
                                   ELSE <<102, 97, 108, 115, 101>>
    [] v.t = "number"    -> IntToStr(v.n)
    [] v.t = "string"    -> v.s
    [] v.t = "array"     -> Join(v.a, <<44>>)

IsDigit(c) == c >= 48 /\ c <= 57

RECURSIVE DigitsToNat(_)
DigitsToNat(s) ==
  IF s = <<>> THEN 0
  ELSE 10 * DigitsToNat(SubSeq(s, 1, Len(s) - 1)) + (s[Len(s)] - 48)

\* Number(s) for a string: surrounding white space is dropped, the empty
\* string is 0, an optionally signed run of digits is its value, and any
\* other text of the model's alphabet is NaN.
StrToNumber(s) ==
  LET u == Trim(s)
      signed == u # <<>> /\ Head(u) \in {43, 45}
      d == IF signed THEN Tail(u) ELSE u
  IN  IF u = <<>> THEN Num(0)
      ELSE IF d # <<>> /\ \A i \in 1..Len(d) : IsDigit(d[i])
      THEN Num(IF signed /\ Head(u) = 45 THEN 0 - DigitsToNat(d)
                                         ELSE DigitsToNat(d))
      ELSE NaN

\* Number(v)
ToNumber(v) ==
  CASE v.t = "undefined" -> NaN
    [] v.t = "null"      -> Num(0)
    [] v.t = "NaN"       -> NaN
    [] v.t = "boolean"   -> Num(IF v.b THEN 1 ELSE 0)
    [] v.t = "number"    -> v
    [] v.t = "string"    -> StrToNumber(v.s)
    [] v.t = "array"     -> StrToNumber(Join(v.a, <<44>>))

\* a - b on numbers
Minus(a, b) == IF IsNaN(a) \/ IsNaN(b) THEN NaN ELSE Num(a.n - b.n)

\* Math.max(0, a)
MathMax0(a) == IF IsNaN(a) THEN NaN ELSE IF a.n > 0 THEN a ELSE Num(0)

\* a line height of size + 2 in place of Math.round(size * 1.2)
RoundLineHeight_SizePlus2(size) ==
  IF IsNaN(size) THEN NaN ELSE Num(size.n + 2)

\* Math.round(size * 1.2): the nearest integer, halves rounded up.  For an
\* integer size the product is never a half, so floor(12*size/10 + 1/2) is
\* exact.
RoundLineHeight(size) ==
  IF IsNaN(size) THEN NaN ELSE Num((12 * size.n + 5) \div 10)

RECURSIVE SplitLines(_)
\* String.prototype.split("\n")
SplitLines(s) ==
  IF \A i \in 1..Len(s) : s[i] # 10 THEN <<s>>
  ELSE LET k == CHOOSE i \in 1..Len(s) :
                   s[i] = 10 /\ \A j \in 1..(i - 1) : s[j] # 10
       IN  <<SubSeq(s, 1, k - 1)>> \o SplitLines(SubSeq(s, k + 1, Len(s)))

\* String.prototype.startsWith / endsWith
StartsWith(s, p) == Len(s) >= Len(p) /\ SubSeq(s, 1, Len(p)) = p
EndsWith(s, p) ==
  Len(s) >= Len(p) /\ SubSeq(s, Len(s) - Len(p) + 1, Len(s)) = p


(***************************************************************************)
(* String literals of the source and of the inputs, as code points.        *)
(***************************************************************************)
S_checkbox == <<99, 104, 101, 99, 107, 98, 111, 120>>        \* "checkbox"
S_text     == <<116, 101, 120, 116>>                          \* "text"
S_V        == <<86>>                                          \* "V"
S_empty    == <<>>                                            \* ""
S_blank    == <<32>>                                          \* " "
S_new      == <<110, 101, 119>>                               \* "new"
S_New      == <<78, 101, 119>>                                \* "New"
S_news     == <<110, 101, 119, 115>>                          \* "news"
S_port     == <<112, 111, 114, 116>>                          \* "port"
S_abc      == <<97, 98, 99>>                                  \* "abc"
S_12       == <<49, 50>>                                      \* "12"
S_0        == <<48>>                                          \* "0"
S_1        == <<49>>                                          \* "1"
S_2        == <<50>>                                          \* "2"
S_Kim      == <<75, 105, 109>>                                \* "Kim"
S_Hello    == <<72, 101, 108, 108, 111>>                      \* "Hello"
S_World    == <<87, 111, 114, 108, 100>>                      \* "World"
S_X        == <<88>>                                          \* "X"
S_hangul   == <<54620, 44544>>                                \* U+D55C U+AE00
S_cafe     == <<99, 97, 102, 233>>                            \* "caf" U+00E9
S_memo2    == <<97, 98, 10, 10, 99, 100>>                     \* "ab\n\ncd"
S_YES      == <<89, 69, 83>>                                  \* "YES"
S_yespad   == <<32, 121, 101, 115, 32>>                       \* " yes "
S_off      == <<111, 102, 102>>                               \* "off"
S_no       == <<110, 111>>                                    \* "no"
S_false    == <<102, 97, 108, 115, 101>>                      \* "false"
S_true     == <<116, 114, 117, 101>>                          \* "true"
S_maybe    == <<109, 97, 121, 98, 101>>                       \* "maybe"
S_Checked  == <<67, 104, 101, 99, 107, 101, 100>>             \* "Checked"
S_checked  == <<99, 104, 101, 99, 107, 101, 100>>             \* "checked"
S_v        == <<118>>                                         \* "v"
S_y        == <<121>>                                         \* "y"
S_yes      == <<121, 101, 115>>                               \* "yes"
S_on       == <<111, 110>>                                    \* "on"

\* keys of the mapping and of the data record
K_join_type     == <<106, 111, 105, 110, 95, 116, 121, 112, 101>>
K_join_type_pad == <<32>> \o K_join_type \o <<32>>            \* " join_type "
K_join_type_new == K_join_type \o <<95, 110, 101, 119>>       \* "join_type_new"
K_agree         == <<97, 103, 114, 101, 101>>                 \* "agree"
K_agree_box     == K_agree \o <<95, 98, 111, 120>>            \* "agree_box"
K_name_print    == <<115, 117, 98, 115, 99, 114, 105, 98, 101, 114, 95, 110,
                     97, 109, 101, 95, 112, 114, 105, 110, 116>>
                                                   \* "subscriber_name_print"
K_memo          == <<109, 101, 109, 111>>                     \* "memo"
K_nick          == <<110, 105, 99, 107>>                      \* "nick"
K_a             == <<97>>                                     \* "a"
K_b             == <<98>>                                     \* "b"
K_a_b           == <<97, 44, 98>>                             \* "a,b"
K_full          == <<102, 117, 108, 108>>                     \* "full"

(***************************************************************************)
(* Helpers of the file (function declarations, lines 25-64 and 276-295).   *)
(***************************************************************************)
\* normalizeBool(v), lines 25-31
normalizeBool(v) ==
  CASE v.t = "boolean" -> v.b
    [] IsNullish(v)    -> FALSE
    [] OTHER           -> ToLowerCase(JsString(v)) \in
                            {S_true, S_1, S_on, S_yes, S_y}

RECURSIVE Chunks(_, _)
\* the parts pushed by the loop of splitEvery, line 38
Chunks(s, n) ==
  IF s = <<>> THEN <<>>
  ELSE IF Len(s) <= n THEN <<s>>
  ELSE <<SubSeq(s, 1, n)>> \o Chunks(SubSeq(s, n + 1, Len(s)), n)

\* splitEvery(str, n), lines 33-40, for a string str
splitEvery(str, n) ==
  IF str = <<>> THEN <<>>
  ELSE IF Len(str) <= n THEN str
  ELSE Join(Chunks(str, n), <<10>>)

\* the key prefixes of isCheckboxKey, lines 56-62
CheckboxPrefixes ==
  { <<102, 114, 101, 101, 116, 95, 103, 114, 111, 117, 112, 95>>,
    <<106, 111, 105, 110, 95, 116, 121, 112, 101, 95>>,
    <<99, 117, 115, 116, 111, 109, 101, 114, 95, 116, 121, 112, 101, 95>>,
    <<115, 105, 109, 95, 116, 121, 112, 101, 95>>,
    <<97, 117, 116, 111, 112, 97, 121, 95, 109, 101, 116, 104, 111, 100, 95>>,
    <<112, 111, 114, 116, 95, 112, 97, 121, 116, 121, 112, 101, 95>>,
    <<112, 114, 101, 118, 95, 99, 97, 114, 114, 105, 101, 114, 95>> }

\* isCheckboxKey(key), lines 53-64
isCheckboxKey(key) == \E p \in CheckboxPrefixes : StartsWith(key, p)

\* the tokens of isTruthy, line 281
TruthyTokens == {S_y, S_yes, S_true, S_1, S_on, S_v, S_checked}

\* a truthiness test made on the string form alone, with no trimming
isTruthy_StringForm(v) ==
  ~IsNullish(v) /\ ToLowerCase(JsString(v)) \in TruthyTokens

\* isTruthy(v), lines 276-284
isTruthy(v) ==
  CASE v.t = "boolean" /\ v.b -> TRUE
    [] IsNumber(v)            -> ~(v.t = "number" /\ v.n = 0)
    [] v.t = "string"         -> ToLowerCase(Trim(v.s)) \in TruthyTokens
    [] OTHER                  -> Truthy(v)

(***************************************************************************)
(* Inputs: the data record of the request body and the entries of          *)
(* mapping.fields.                                                         *)
(***************************************************************************)
\* a 32-character and a 30-character value with no line break
Name32 == [i \in 1..32 |-> 65 + (i % 26)]
Name30 == [i \in 1..30 |-> 65 + (i % 26)]

\* data[key]: a missing key reads as undefined
Get(d, key) == IF key \in DOMAIN d THEN d[key] ELSE Undefined

\* A JSON data record; a component given as Undefined is a key left out.
Rec(jt, ag, nm, nk) ==
  LET full == (K_join_type :> jt) @@ (K_agree :> ag) @@ (K_name_print :> nm)
              @@ (K_nick :> nk) @@ (K_memo :> Str(S_memo2))
              @@ (K_a :> Str(S_Hello)) @@ (K_b :> Str(S_World))
  IN  [k \in {q \in DOMAIN full : full[q] # Undefined} |-> full[k]]

JoinTypeValues ==
  { Str(S_new), Str(S_port), Str(S_New), Str(S_news), Str(S_blank),
    Num(1), Undefined }

AgreeValues ==
  { Str(S_YES), Str(S_yespad), Str(S_off), Str(S_no), Str(S_false),
    Str(S_0), Str(S_empty), Str(S_maybe), Str(S_Checked), Str(S_v),
    Str(S_y), Str(S_1), Str(S_on), Str(S_true), Str(S_yes),
    Num(0), Num(1), Num(2), Bool(TRUE), Bool(FALSE), Null, Undefined }

NameValues == { Str(Name32), Str(Name30), Str(S_Kim), Str(S_memo2) }

NickValues == { Str(S_hangul), Str(S_cafe), Str(S_Kim) }

\* One component varied at a time around a base record, the empty record,
\* and a record that has the key "a,b".
DataRecords ==
  { Rec(jt, Str(S_YES), Str(Name32), Str(S_hangul)) : jt \in JoinTypeValues }
  \cup { Rec(Str(S_new), ag, Str(Name32), Str(S_Kim)) : ag \in AgreeValues }
  \cup { Rec(Str(S_new), Str(S_YES), nm, Str(S_Kim)) : nm \in NameValues }
  \cup { Rec(Str(S_port), Str(S_off), Str(S_Kim), nk) : nk \in NickValues }
  \cup { <<>>,
         (K_a_b :> Str(S_X)) @@ (K_a :> Str(S_Hello)) @@ (K_b :> Str(S_World)) }

\* One entry of mapping.fields: the key and the attributes of its
\* specification, an absent attribute being Undefined.
Field(key, page, x, y, size, type, source, on_value) ==
  [key |-> key, page |-> page, x |-> x, y |-> y, size |-> size,
   type |-> type, source |-> source, on_value |-> on_value]

\* a checkbox entry at page 1, (100, 700)
Checkbox(key, type, source, on_value) ==
  Field(key, Num(1), Num(100), Num(700), Undefined, type, source, on_value)

\* a text entry of key subscriber_name_print, reading its own key
NamePrint(page, x, y, size) ==
  Field(K_name_print, page, x, y, size, Undefined, Str(K_name_print),
        Undefined)

FieldSpecs ==
  { \* checkbox entries: source and on_value
    Checkbox(K_join_type_new, Str(S_checkbox), Str(K_join_type), Str(S_new)),
    Checkbox(K_join_type_new, Str(S_checkbox), Str(K_join_type_pad),
             Str(S_new)),
    Checkbox(K_join_type_new, Str(S_checkbox), Str(K_join_type),
             Str(S_blank)),
    Checkbox(K_join_type_new, Str(S_checkbox), Str(K_join_type), Num(1)),
    Checkbox(K_join_type, Str(S_checkbox), Undefined, Str(S_new)),
    Checkbox(K_agree_box, Str(S_checkbox), Str(K_agree), Undefined),
    Checkbox(K_agree, Str(S_checkbox), Str(S_blank), Str(S_empty)),
    \* entries that declare on_value or a group key but not the type
    Checkbox(K_join_type_new, Undefined, Str(K_join_type), Str(S_new)),
    Checkbox(K_join_type_new, Str(S_text), Undefined, Undefined),
    Checkbox(K_agree, Str(S_text), Undefined, Str(S_YES)),
    \* text entries
    NamePrint(Num(1), Num(50), Num(600), Num(10)),
    Field(K_memo, Num(2), Num(50), Num(600), Num(13), Str(S_text),
          Undefined, Undefined),
    Field(K_full, Num(1), Num(50), Num(600), Num(10), Undefined,
          Arr(<<K_a, K_b>>), Undefined),
    Field(K_nick, Num(1), Num(50), Num(600), Num(10), Undefined,
          Undefined, Undefined),
    \* an entry whose specification is {}
    Field(K_memo, Undefined, Undefined, Undefined, Undefined, Undefined,
          Undefined, Undefined),
    \* page
    NamePrint(Num(NumPages + 1), Num(50), Num(600), Num(10)),
    NamePrint(Num(0), Num(50), Num(600), Num(10)),
    NamePrint(Num(0 - 1), Num(50), Num(600), Num(10)),
    NamePrint(Str(S_2), Num(50), Num(600), Num(10)),
    NamePrint(Str(S_abc), Num(50), Num(600), Num(10)),
    Field(K_join_type_new, Num(NumPages + 1), Num(100), Num(700), Undefined,
          Str(S_checkbox), Str(K_join_type), Str(S_new)),
    \* x, y, size
    NamePrint(Num(1), Str(S_abc), Num(600), Num(10)),
    NamePrint(Num(1), Num(50), Str(S_abc), Num(10)),
    NamePrint(Num(1), Num(50), Num(600), Str(S_abc)),
    NamePrint(Num(1), Str(S_12), Undefined, Str(S_0)),
    NamePrint(Num(1), Num(0), Num(0 - 20), Num(0)),
    Field(K_join_type_new, Num(1), Str(S_abc), Num(700), Str(S_abc),
          Str(S_checkbox), Str(K_join_type), Str(S_new)),
    Field(K_join_type_new, Num(1), Num(100), Null, Str(S_0),
          Str(S_checkbox), Str(K_join_type), Str(S_new)) }

\* The entries of one mapping, in the order of Object.entries: at most
\* MaxFields of them, their keys distinct.
Mappings ==
  UNION { { m \in [1..n -> FieldSpecs] :
              \A i, j \in 1..n : i # j => m[i].key # m[j].key } :
          n \in 0..MaxFields }

(***************************************************************************)
(* State of one invocation of the handler.                                 *)
(***************************************************************************)
VARIABLES
  pc,        \* "idle", "loop" (in the for loop of line 342), "done"
  data,      \* body.data
  fields,    \* Object.entries(mapping.fields)
  idx,       \* the entry the loop is at
  font,      \* "none", "custom" (the font of fontUrl) or "helvetica"
  draws,     \* the page.drawText calls that returned, in order
  path,      \* per processed entry: "skip", "checkbox", "text" or "throw"
  response   \* statusCode, and whether the body carries the document

vars == <<pc, data, fields, idx, font, draws, path, response>>

NoResponse == [statusCode |-> 0, pdf |-> FALSE]

Init ==
  /\ pc = "idle"
  /\ data = <<>>
  /\ fields = <<>>
  /\ idx = 1
  /\ font = "none"
  /\ draws = <<>>
  /\ path = <<>>
  /\ response = NoResponse

(***************************************************************************)
(* page.drawText of pdf-lib.  The standard font Helvetica encodes text as  *)
(* WinAnsi and drawText throws on a character outside it; an embedded      *)
(* custom font draws any text.                                             *)
(***************************************************************************)
IsAscii(c) == c <= 127
WinAnsi(c) == (c >= 32 /\ c <= 126) \/ (c >= 160 /\ c <= 255)

drawTextThrows(f, text) ==
  f = "helvetica" /\ \E i \in 1..Len(text) : ~WinAnsi(text[i])

\* One page.drawText call: the entry (its index in fields) and the line
\* number it comes from, and the arguments of the call.
Draw(field, via, line, page, text, x, y, size, f) ==
  [field |-> field, via |-> via, line |-> line, page |-> page,
   text |-> text, x |-> x, y |-> y, size |-> size, font |-> f]

(***************************************************************************)
(* The body of the for loop, lines 342-376.                                *)
(***************************************************************************)
\* line 344
pageIndex(spec) == MathMax0(Minus(ToNumber(Or(spec.page, Num(1))), Num(1)))

\* a page lookup that misses the check of line 346
hasPage_NoUpperBound(spec) ==
  LET p == pageIndex(spec)
  IN  ~IsNaN(p) /\ p.n >= 0

\* line 345-346: pages[pageIndex] is a page
hasPage(spec) ==
  LET p == pageIndex(spec)
  IN  ~IsNaN(p) /\ p.n >= 0 /\ p.n < NumPages

\* lines 348-351
fieldX(spec)    == ToNumber(Or(spec.x, Num(0)))
fieldY(spec)    == ToNumber(Or(spec.y, Num(0)))
fieldSize(spec) == ToNumber(Or(spec.size, Num(10)))
fieldType(spec) == Or(spec.type, Str(S_text))

\* line 353
sourceKey(spec) ==
  IF Truthy(spec.source) /\ Trim(JsString(spec.source)) # <<>>
  THEN Trim(JsString(spec.source))
  ELSE spec.key

\* line 355
isCheckboxType(spec) == fieldType(spec) = Str(S_checkbox)

\* line 360
hasOnValue(spec) ==
  ~IsNullish(spec.on_value) /\ Trim(JsString(spec.on_value)) # <<>>

\* a comparison with on_value that ignores case
shouldCheck_IgnoreCase(spec, d) ==
  LET srcVal == Get(d, sourceKey(spec))
  IN  IF hasOnValue(spec)
      THEN ToLowerCase(JsString(Coalesce(srcVal, Str(<<>>))))
             = ToLowerCase(JsString(spec.on_value))
      ELSE isTruthy(srcVal)

\* lines 356-364
shouldCheck(spec, d) ==
  LET srcVal == Get(d, sourceKey(spec))
  IN  IF hasOnValue(spec)
      THEN JsString(Coalesce(srcVal, Str(<<>>))) = JsString(spec.on_value)
      ELSE isTruthy(srcVal)

\* line 367: size || 12
checkboxSize(spec) == Or(fieldSize(spec), Num(12))

\* line 373: the text entry draws nothing
textSkipped(val) == IsNullish(val) \/ Trim(JsString(val)) = <<>>

RECURSIVE lineY(_, _, _)
\* yy at line i (from 1) of drawMultiline: y, then lineHeight subtracted
\* once per earlier line, lines 289-293
lineY(y, lineHeight, i) ==
  IF i = 1 THEN y ELSE Minus(lineY(y, lineHeight, i - 1), lineHeight)

\* drawMultiline(page, font, text, x, y, size), lines 286-295: the calls
\* that returned and whether one threw.
drawMultiline(k, page, f, text, x, y, size) ==
  LET lines      == SplitLines(text)
      lineHeight == RoundLineHeight(size)
      bad == { i \in 1..Len(lines) :
                 lines[i] # <<>> /\ drawTextThrows(f, lines[i]) }
      stop == IF bad = {} THEN Len(lines) + 1
              ELSE CHOOSE i \in bad : \A j \in bad : i <= j
      all == [i \in 1..Len(lines) |->
                Draw(k, "text", i - 1, page, lines[i], x,
                     lineY(y, lineHeight, i), size, f)]
  IN  [calls |-> SelectSeq(all, LAMBDA c : c.text # <<>> /\ c.line + 1 < stop),
       threw |-> bad # {}]

\* One iteration of the loop for entry k of the mapping: the branch taken,
\* the draw calls that returned and whether a call threw.
processField(k, spec, d, f) ==
  IF ~hasPage(spec)
  THEN [path |-> "skip", calls |-> <<>>, threw |-> FALSE]
  ELSE IF isCheckboxType(spec)
  THEN [path |-> "checkbox",
        calls |-> IF shouldCheck(spec, d)
                  THEN <<Draw(k, "checkbox", 0, pageIndex(spec).n, S_V,
                              fieldX(spec), fieldY(spec),
                              checkboxSize(spec), f)>>
                  ELSE <<>>,
        threw |-> FALSE]
  ELSE LET val == Get(d, sourceKey(spec))
       IN  IF textSkipped(val)
           THEN [path |-> "text", calls |-> <<>>, threw |-> FALSE]
           ELSE LET r == drawMultiline(k, pageIndex(spec).n, f,
                                       JsString(val), fieldX(spec),
                                       fieldY(spec), fieldSize(spec))
                IN  [path |-> "text", calls |-> r.calls, threw |-> r.threw]

(***************************************************************************)
(* exports.handler, lines 297-389.                                         *)
(***************************************************************************)
\* lines 299-301
MethodNotAllowed ==
  /\ pc = "idle"
  /\ pc' = "done"
  /\ response' = [statusCode |-> 405, pdf |-> FALSE]
  /\ UNCHANGED <<data, fields, idx, font, draws, path>>

\* lines 303-340 with POST: the body is parsed, the template and the
\* mapping are fetched, and the font of fontUrl is embedded, or Helvetica
\* when there is no fontUrl or its fetch or embedding throws.
Load ==
  /\ pc = "idle"
  /\ \E d \in DataRecords, m \in Mappings, f \in {"custom", "helvetica"} :
       /\ data' = d
       /\ fields' = m
       /\ font' = f
  /\ pc' = "loop"
  /\ UNCHANGED <<idx, draws, path, response>>

\* lines 303-325 throwing (JSON.parse, fetchBinary, fetchJson,
\* PDFDocument.load): caught at line 386
LoadFails ==
  /\ pc = "idle"
  /\ pc' = "done"
  /\ response' = [statusCode |-> 500, pdf |-> FALSE]
  /\ UNCHANGED <<data, fields, idx, font, draws, path>>

\* one iteration of the loop, lines 342-376; a throw ends at line 387
ProcessField ==
  /\ pc = "loop"
  /\ idx <= Len(fields)
  /\ LET r == processField(idx, fields[idx], data, font)
     IN  /\ draws' = draws \o r.calls
         /\ path' = Append(path, r.path)
         /\ IF r.threw
            THEN /\ pc' = "done"
                 /\ response' = [statusCode |-> 500, pdf |-> FALSE]
                 /\ idx' = idx
            ELSE /\ idx' = idx + 1
                 /\ UNCHANGED <<pc, response>>
  /\ UNCHANGED <<data, fields, font>>

\* lines 378-385
Save ==
  /\ pc = "loop"
  /\ idx > Len(fields)
  /\ pc' = "done"
  /\ response' = [statusCode |-> 200, pdf |-> TRUE]
  /\ UNCHANGED <<data, fields, idx, font, draws, path>>

Next == MethodNotAllowed \/ Load \/ LoadFails \/ ProcessField \/ Save

Spec == Init /\ [][Next]_vars

(***************************************************************************)
(* The earlier definition of exports.handler, lines 66-229.                *)
(***************************************************************************)
\* the option names of the pattern of line 48
OptionNames ==
  { <<115, 107>>, <<107, 116>>, S_new, S_port,
    <<102, 111, 114, 101, 105, 103, 110, 101, 114>>,
    <<110, 97, 116, 105, 118, 101>>, <<117, 115, 105, 109>>,
    <<101, 115, 105, 109>>, <<98, 97, 110, 107>>, <<99, 97, 114, 100>>,
    <<112, 114, 101, 112, 97, 105, 100>>,
    <<112, 111, 115, 116, 112, 97, 105, 100>>, <<115, 107, 116>>,
    <<108, 103, 117>>, <<109, 118, 110, 111>> }

\* the places of key where "__" starts
DoubleUnderscores(key) ==
  { i \in 1..(Len(key) - 1) : key[i] = 95 /\ key[i + 1] = 95 }

\* the places of key where "_" stands
Underscores(key) == { i \in 1..Len(key) : key[i] = 95 }

Min(S) == CHOOSE i \in S : \A j \in S : i <= j
Max(S) == CHOOSE i \in S : \A j \in S : i >= j

\* optionFromKey(key), lines 42-51: found is FALSE for null
optionFromKey(key) ==
  IF DoubleUnderscores(key) # {}
  THEN LET i == Min(DoubleUnderscores(key))
           rest == SubSeq(key, i + 2, Len(key))
           j == IF DoubleUnderscores(rest) = {} THEN Len(rest) + 1
                ELSE Min(DoubleUnderscores(rest))
       IN  [found |-> TRUE, base |-> SubSeq(key, 1, i - 1),
            opt |-> SubSeq(rest, 1, j - 1)]
  ELSE IF Underscores(key) # {}
          /\ ToLowerCase(SubSeq(key, Max(Underscores(key)) + 1, Len(key)))
               \in OptionNames
  THEN LET i == Max(Underscores(key))
       IN  [found |-> TRUE, base |-> SubSeq(key, 1, i - 1),
            opt |-> ToLowerCase(SubSeq(key, i + 1, Len(key)))]
  ELSE [found |-> FALSE, base |-> <<>>, opt |-> <<>>]

\* String(v ?? ''), lines 163 and 169
StringOrEmptyV1(v) == JsString(Coalesce(v, Str(<<>>)))

\* line 143: pdfDoc.getPage(pageIndex) returns a page; it throws otherwise
getPageV1(spec) == hasPage(spec)

\* line 149
typeV1(spec) == ToLowerCase(JsString(fieldType(spec)))

\* line 150: null is Undefined here
srcV1(spec) ==
  IF spec.source.t = "array" /\ spec.source.a # <<>>
  THEN Str(spec.source.a[1]) ELSE Undefined

\* line 152
valV1(spec, d) ==
  IF Truthy(srcV1(spec)) THEN Get(d, srcV1(spec).s) ELSE Get(d, spec.key)

\* line 154
treatAsCheckbox(spec) ==
  \/ typeV1(spec) = S_checkbox
  \/ isCheckboxKey(spec.key)
  \/ ~IsNullish(spec.on_value)

\* lines 158-174
checkedV1(spec, d) ==
  IF ~IsNullish(spec.on_value)
  THEN StringOrEmptyV1(valV1(spec, d)) = JsString(spec.on_value)
  ELSE LET optInfo == optionFromKey(spec.key)
       IN  IF optInfo.found
           THEN ToLowerCase(StringOrEmptyV1(Get(d, optInfo.base)))
                  = ToLowerCase(optInfo.opt)
           ELSE normalizeBool(valV1(spec, d))

\* lines 188-192
textV1(spec, d) ==
  LET text == IF IsNullish(valV1(spec, d)) THEN <<>>
              ELSE JsString(valV1(spec, d))
  IN  IF EndsWith(spec.key, <<95, 112, 114, 105, 110, 116>>)
         /\ Len(text) > 25
      THEN splitEvery(text, 25) ELSE text

\* line 200: size + 2
lineHeightV1(size) == IF IsNaN(size) THEN NaN ELSE Num(size.n + 2)

\* lines 194-202: one page.drawText call with the lineHeight option; the
\* library draws the lines of the text lineHeight apart, or throws before
\* drawing anything.
drawTextV1(k, page, f, text, x, y, size) ==
  LET lines == SplitLines(text)
      threw == \E i \in 1..Len(lines) : drawTextThrows(f, lines[i])
      all == [i \in 1..Len(lines) |->
                Draw(k, "text", i - 1, page, lines[i], x,
                     lineY(y, lineHeightV1(size), i), size, f)]
  IN  [calls |-> IF threw THEN <<>> ELSE all, threw |-> threw]

\* One iteration of the loop of lines 141-203.
processFieldV1(k, spec, d, f) ==
  IF ~getPageV1(spec)
  THEN [path |-> "throw", calls |-> <<>>, threw |-> TRUE]
  ELSE IF treatAsCheckbox(spec)
  THEN [path |-> "checkbox",
        calls |-> IF checkedV1(spec, d)
                  THEN <<Draw(k, "checkbox", 0, pageIndex(spec).n, S_V,
                              fieldX(spec), fieldY(spec), fieldSize(spec),
                              f)>>
                  ELSE <<>>,
        threw |-> FALSE]
  ELSE IF textV1(spec, d) = <<>>
  THEN [path |-> "text", calls |-> <<>>, threw |-> FALSE]
  ELSE LET r == drawTextV1(k, pageIndex(spec).n, f, textV1(spec, d),
                           fieldX(spec), fieldY(spec), fieldSize(spec))
       IN  [path |-> "text", calls |-> r.calls, threw |-> r.threw]

\* lines 69-79
OptionsV1 ==
  /\ pc = "idle"
  /\ pc' = "done"
  /\ response' = [statusCode |-> 200, pdf |-> FALSE]
  /\ UNCHANGED <<data, fields, idx, font, draws, path>>

\* lines 81-90
MethodNotAllowedV1 ==
  /\ pc = "idle"
  /\ pc' = "done"
  /\ response' = [statusCode |-> 405, pdf |-> FALSE]
  /\ UNCHANGED <<data, fields, idx, font, draws, path>>

\* lines 92-138 with POST: the body is the data record, the mapping is
\* read from disk, malgun.ttf is embedded when fontkit and the file are
\* there, and Helvetica otherwise.
LoadV1 ==
  /\ pc = "idle"
  /\ \E d \in DataRecords, m \in Mappings, f \in {"custom", "helvetica"} :
       /\ data' = d
       /\ fields' = m
       /\ font' = f
  /\ pc' = "loop"
  /\ UNCHANGED <<idx, draws, path, response>>

\* lines 104-110 (no mapping) and lines 92-113 throwing (JSON.parse,
\* readFileSync, PDFDocument.load), caught at line 219
LoadFailsV1 ==
  /\ pc = "idle"
  /\ pc' = "done"
  /\ response' = [statusCode |-> 500, pdf |-> FALSE]
  /\ UNCHANGED <<data, fields, idx, font, draws, path>>

\* one iteration of the loop, lines 141-203
ProcessFieldV1 ==
  /\ pc = "loop"
  /\ idx <= Len(fields)
  /\ LET r == processFieldV1(idx, fields[idx], data, font)
     IN  /\ draws' = draws \o r.calls
         /\ path' = Append(path, r.path)
         /\ IF r.threw
            THEN /\ pc' = "done"
                 /\ response' = [statusCode |-> 500, pdf |-> FALSE]
                 /\ idx' = idx
            ELSE /\ idx' = idx + 1
                 /\ UNCHANGED <<pc, response>>
  /\ UNCHANGED <<data, fields, font>>

\* lines 205-218
SaveV1 ==
  /\ pc = "loop"
  /\ idx > Len(fields)
  /\ pc' = "done"
  /\ response' = [statusCode |-> 200, pdf |-> TRUE]
  /\ UNCHANGED <<data, fields, idx, font, draws, path>>

NextV1 ==
  \/ OptionsV1 \/ MethodNotAllowedV1 \/ LoadV1 \/ LoadFailsV1
  \/ ProcessFieldV1 \/ SaveV1

SpecV1 == Init /\ [][NextV1]_vars

(***************************************************************************)
(* Properties.                                                             *)
(***************************************************************************)
\* the entries the loop has gone through
Processed == 1..Len(path)

\* the draw calls of entry k, in order
DrawsOf(k) == SelectSeq(draws, LAMBDA c : c.field = k)

\* the texts of a sequence of draw calls
Texts(cs) == [i \in 1..Len(cs) |-> cs[i].text]

\* a single "V" at the entry's page and, where they are numbers, its x, y
IsMark(cs, spec) ==
  /\ Len(cs) = 1
  /\ cs[1].text = S_V
  /\ cs[1].page = pageIndex(spec).n
  /\ (spec.x.t = "number" => cs[1].x = spec.x)
  /\ (spec.y.t = "number" => cs[1].y = spec.y)

\* String(v ?? "")
StringOrEmpty(v) == IF IsNullish(v) THEN <<>> ELSE JsString(v)

\* the value a claim resolves for an entry with a single source key:
\* data[source], or data[field key] when source is absent
ResolvedAsClaimed(spec, d) ==
  IF spec.source = Undefined THEN Get(d, spec.key)
  ELSE Get(d, JsString(spec.source))

\* the same with the source trimmed, a blank source counting as absent
ResolvedTrimmed(spec, d) ==
  IF spec.source = Undefined \/ Trim(JsString(spec.source)) = <<>>
  THEN Get(d, spec.key)
  ELSE Get(d, Trim(JsString(spec.source)))

\* C1 as stated: for every entry processed as a checkbox whose on_value is
\* present and non-empty, one "V" is drawn at the entry's (x, y) on its page
\* if String(resolved value) equals String(on_value) exactly, and nothing is
\* drawn otherwise.
C1_MarkIffEqualsNonEmptyOnValue ==
  \A k \in Processed :
    LET spec == fields[k]
    IN  (path[k] = "checkbox" /\ ~IsNullish(spec.on_value)
           /\ JsString(spec.on_value) # <<>>)
        => IF StringOrEmpty(ResolvedAsClaimed(spec, data))
                = JsString(spec.on_value)
           THEN IsMark(DrawsOf(k), spec)
           ELSE DrawsOf(k) = <<>>

\* C1 amended: for every entry processed as a checkbox whose on_value is
\* present and not blank (not empty after trimming white space), one "V" is
\* drawn if String(data[trimmed source], or data[key] when the source is
\* absent or blank) equals String(on_value) exactly, and nothing otherwise.
C1_MarkIffEqualsNonBlankOnValue ==
  \A k \in Processed :
    LET spec == fields[k]
    IN  (path[k] = "checkbox" /\ ~IsNullish(spec.on_value)
           /\ Trim(JsString(spec.on_value)) # <<>>)
        => IF StringOrEmpty(ResolvedTrimmed(spec, data))
                = JsString(spec.on_value)
           THEN IsMark(DrawsOf(k), spec)
           ELSE DrawsOf(k) = <<>>

\* C1 witness: a render has ended with the checkbox of on_value "new"
\* marked for the data value "new".
C1_Witness ==
  /\ pc = "done"
  /\ \E k \in Processed :
       /\ path[k] = "checkbox"
       /\ fields[k].on_value = Str(S_new)
       /\ Get(data, K_join_type) = Str(S_new)
       /\ IsMark(DrawsOf(k), fields[k])

\* the tokens C2 names
ClaimedTokens ==
  { <<121>>, <<121, 101, 115>>, <<116, 114, 117, 101>>, <<49>>,
    <<111, 110>>, <<118>>, <<99, 104, 101, 99, 107, 101, 100>> }

\* C2 as stated: for every checkbox entry without on_value, the mark is
\* drawn if and only if the resolved value, compared case-insensitively, is
\* one of the tokens y, yes, true, 1, on, v, checked.
C2_MarkIffToken ==
  \A k \in Processed :
    LET spec == fields[k]
    IN  (path[k] = "checkbox" /\ IsNullish(spec.on_value))
        => IF ToLowerCase(StringOrEmpty(ResolvedTrimmed(spec, data)))
                \in ClaimedTokens
           THEN IsMark(DrawsOf(k), spec)
           ELSE DrawsOf(k) = <<>>

\* the values C2 amended counts as checked
CheckedValue(v) ==
  \/ v = Bool(TRUE)
  \/ v.t = "number" /\ v.n # 0
  \/ v.t = "string" /\ ToLowerCase(Trim(v.s)) \in ClaimedTokens

\* C2 amended: for every checkbox entry without on_value, the mark is drawn
\* if and only if the resolved value is the boolean true, a non-zero number,
\* or a string that, trimmed of white space and compared case-insensitively,
\* is one of the tokens y, yes, true, 1, on, v, checked.
C2_MarkIffTruthy ==
  \A k \in Processed :
    LET spec == fields[k]
    IN  (path[k] = "checkbox" /\ IsNullish(spec.on_value))
        => IF CheckedValue(ResolvedTrimmed(spec, data))
           THEN IsMark(DrawsOf(k), spec)
           ELSE DrawsOf(k) = <<>>

\* C2 witness: a checkbox entry without on_value is marked for the value
\* "Checked" (a token in another case).
C2_Witness ==
  \E k \in Processed :
    /\ path[k] = "checkbox"
    /\ fields[k].on_value = Undefined
    /\ Get(data, K_agree) = Str(S_Checked)
    /\ IsMark(DrawsOf(k), fields[k])

\* the entry is a checkbox by its type, its on_value or its key
CheckboxLike(spec) ==
  \/ spec.type = Str(S_checkbox)
  \/ spec.on_value # Undefined
  \/ isCheckboxKey(spec.key)

\* C3: an entry whose type is checkbox, or that declares on_value, or whose
\* key starts with an option-group prefix, is processed on the checkbox
\* path: what is drawn for it is the mark "V", never its data value as text.
\* Any other entry is processed on the text path.
C3_CheckboxPathByTypeOnValueOrKey ==
  \A i \in 1..Len(draws) :
    IF CheckboxLike(fields[draws[i].field])
    THEN draws[i].via = "checkbox" /\ draws[i].text = S_V
    ELSE draws[i].via = "text"

RECURSIVE ConcatValues(_, _)
\* the data values of the keys, missing as "", concatenated in order
ConcatValues(keys, d) ==
  IF keys = <<>> THEN <<>>
  ELSE StringOrEmpty(Get(d, Head(keys))) \o ConcatValues(Tail(keys), d)

\* the lines a text value is drawn as when it is drawn whole
DrawnLines(v) ==
  IF Trim(v) = <<>> THEN <<>>
  ELSE SelectSeq(SplitLines(v), LAMBDA l : l # <<>>)

\* C4: when the source of a text entry is a sequence of keys, the value
\* drawn is the concatenation, in order and with no separator, of the data
\* values of the keys.
C4_SequenceSourceConcatenates ==
  \A k \in Processed :
    LET spec == fields[k]
    IN  (path[k] = "text" /\ spec.source.t = "array")
        => Texts(DrawsOf(k)) = DrawnLines(ConcatValues(spec.source.a, data))

\* a name-print key
WrapEligible(key) == EndsWith(key, <<95, 112, 114, 105, 110, 116>>)

\* the text entry k was drawn to its end: it has a value and no call threw
DrawnWhole(k) ==
  /\ path[k] = "text"
  /\ ~textSkipped(Get(data, sourceKey(fields[k])))
  /\ (k < Len(path) \/ response.statusCode # 500)

\* C5: a wrap-eligible value with no line break and more than 30
\* characters is drawn as consecutive chunks of at most 30 characters, one
\* line each, that concatenate to the value.
C5_WrapsAtThirty ==
  \A k \in Processed :
    LET spec == fields[k]
        v == JsString(Get(data, sourceKey(spec)))
    IN  (DrawnWhole(k) /\ WrapEligible(spec.key) /\ Len(v) > 30
           /\ \A i \in 1..Len(v) : v[i] # 10)
        => Texts(DrawsOf(k)) = Chunks(v, 30)

\* C6 as stated: an entry whose page is greater than the number of pages,
\* or less than 1, is skipped: no draw call is issued for it.
C6_OutOfRangePageSkipped ==
  \A k \in Processed :
    LET spec == fields[k]
    IN  (spec.page.t = "number"
           /\ (spec.page.n > NumPages \/ spec.page.n < 1))
        => DrawsOf(k) = <<>>

\* C6 amended: an entry whose page is greater than the number of pages is
\* skipped without error: no draw call is issued for it, an error response
\* never comes from it, and a render that ends with status 200 has gone
\* through every entry.  An entry whose page is less than 1 is not skipped:
\* it is processed on the first page.
C6_PageBeyondLastSkipped ==
  /\ \A k \in Processed :
       LET spec == fields[k]
       IN  /\ (spec.page.t = "number" /\ spec.page.n > NumPages)
              => (path[k] = "skip" /\ DrawsOf(k) = <<>>)
           /\ (spec.page.t = "number" /\ spec.page.n < 1)
              => (path[k] # "skip"
                    /\ \A i \in 1..Len(DrawsOf(k)) : DrawsOf(k)[i].page = 0)
  /\ (response.statusCode = 500 /\ path # <<>>)
       => path[Len(path)] # "skip"
  /\ response.statusCode = 200 => Len(path) = Len(fields)

\* C6 witness: a render of two entries has ended with status 200, the first
\* entry, whose page is beyond the last, skipped, and the second drawn.
C6_Witness ==
  /\ pc = "done"
  /\ response.statusCode = 200
  /\ Len(path) = 2
  /\ fields[1].page = Num(NumPages + 1)
  /\ path[1] = "skip"
  /\ DrawsOf(1) = <<>>
  /\ DrawsOf(2) # <<>>

\* C7: no draw call pairs a text that has a non-ASCII character with the
\* Latin-only default font, and a render that had to draw such a text
\* without the embedded font ends in an error.
C7_NonAsciiNeverInDefaultFont ==
  /\ \A i \in 1..Len(draws) :
       draws[i].font = "helvetica"
         => \A j \in 1..Len(draws[i].text) : IsAscii(draws[i].text[j])
  /\ \A k \in Processed :
       LET v == JsString(Get(data, sourceKey(fields[k])))
       IN  (path[k] = "text" /\ font = "helvetica"
              /\ ~textSkipped(Get(data, sourceKey(fields[k])))
              /\ \E j \in 1..Len(v) : ~IsAscii(v[j]))
           => (response.statusCode = 500 /\ ~response.pdf)

\* C8: a wrap-eligible value that fits in one line (at most 30 characters,
\* no line break) is drawn at y - (size*1.2)/2, that is 10*y' = 10*y -
\* 6*size; a wrap-eligible value of two or more lines starts at y.
C8_SingleLineCentred ==
  \A k \in Processed :
    LET spec == fields[k]
        v  == JsString(Get(data, sourceKey(spec)))
        cs == DrawsOf(k)
    IN  (DrawnWhole(k) /\ WrapEligible(spec.key)
           /\ spec.y.t = "number" /\ spec.size.t = "number"
           /\ spec.size.n > 0)
        => IF Len(v) <= 30 /\ \A i \in 1..Len(v) : v[i] # 10
           THEN /\ Len(cs) = 1
                /\ cs[1].y.t = "number"
                /\ 10 * cs[1].y.n = 10 * spec.y.n - 6 * spec.size.n
           ELSE cs[1].y = spec.y

\* the entry's y and size are finite numbers (size not 0, which is
\* replaced by the default)
NumericYAndSize(spec) ==
  /\ spec.y.t = "number"
  /\ spec.size.t = "number"
  /\ spec.size.n # 0

\* C9 as stated: line i (from 0, empty lines counted) of a text value is
\* drawn at x and at y - i*lineHeight with lineHeight exactly size*1.2,
\* that is 10*y' = 10*y - 12*i*size.
C9_LineHeightExact ==
  \A i \in 1..Len(draws) :
    LET c == draws[i]
        spec == fields[c.field]
    IN  (c.via = "text" /\ NumericYAndSize(spec))
        => /\ (spec.x.t = "number" => c.x = spec.x)
           /\ c.y.t = "number"
           /\ 10 * c.y.n = 10 * spec.y.n - 12 * c.line * spec.size.n

\* Math.round(size*1.2) stated as the integer nearest to 12*size/10
IsRounded(h, size) == 10 * h - 12 * size \in (0 - 4)..5

\* C9 amended: for a numeric y and size, line i (from 0, empty lines
\* counted but not drawn) of a text value is drawn at x and at
\* y - i*lineHeight, lineHeight being size*1.2 rounded to the nearest
\* integer.
C9_LineHeightRounded ==
  \A i \in 1..Len(draws) :
    LET c == draws[i]
        spec == fields[c.field]
    IN  (c.via = "text" /\ NumericYAndSize(spec))
        => /\ (spec.x.t = "number" => c.x = spec.x)
           /\ c.text # <<>>
           /\ c.text = SplitLines(JsString(Get(data, sourceKey(spec))))
                         [c.line + 1]
           /\ c.y.t = "number"
           /\ \E h \in (0 - 2 * spec.size.n - 2)..(2 * spec.size.n + 2) :
                /\ IsRounded(h, spec.size.n)
                /\ c.y.n = spec.y.n - c.line * h

\* C9 witness: the third line of "ab\n\ncd" (its second line is empty) is
\* drawn at size 13 two rounded line heights below y = 600.
C9_Witness ==
  \E i \in 1..Len(draws) :
    /\ draws[i].via = "text"
    /\ draws[i].line = 2
    /\ draws[i].size = Num(13)
    /\ draws[i].text = <<99, 100>>
    /\ draws[i].y = Num(568)
    /\ fields[draws[i].field].y = Num(600)

\* C10: the x, y and size of every draw call are finite numbers: the
\* entry's value when it is a number (a positive one for size), and the
\* defaults x = 0, y = 0 and size = 10 when it is absent or not a number.
C10_FiniteCoordinates ==
  \A i \in 1..Len(draws) :
    LET c == draws[i]
        spec == fields[c.field]
    IN  /\ ~IsNaN(c.x) /\ ~IsNaN(c.y) /\ ~IsNaN(c.size)
        /\ c.x = (IF spec.x.t = "number" THEN spec.x ELSE Num(0))
        /\ (c.line = 0 =>
              c.y = (IF spec.y.t = "number" THEN spec.y ELSE Num(0)))
        /\ (spec.size.t = "number" /\ spec.size.n > 0 => c.size = spec.size)
        /\ (spec.size.t # "number" => c.size = Num(10))

=============================================================================
